---- MODULE Spec2Model ----
(***************************************************************************)
(* Model of core/src/subgraph/manager.rs: the RuntimeManager (registry of  *)
(* runtime hosts and cancel senders), the per-subgraph head block update   *)
(* task, the runtime event stream handler tasks and the reconciliation     *)
(* loop handle_head_block_update.                                          *)
(***************************************************************************)
EXTENDS Integers, Sequences, FiniteSets, TLC

\* ------------------------------------------------------------------ bounds
\* REORG_THRESHOLD is 300 in the source (manager.rs:17); the model scales it
\* down so that both sides of the threshold fit in a small block tree.
REORG_THRESHOLD == 2
\* Highest block number of the block tree.
MaxNum == 4
\* Number of SubgraphAdded events the provider sends (one watcher and one
\* host list is created per event).
MaxAdds == 2
\* Capacity of a runtime host's event stream channel.
MaxStream == 1

Ids == {"X"}
Slots == 1..MaxAdds

\* ------------------------------------------------------- block tree (chain)
\* Two branches that share the genesis block: "A" holds the blocks 0..MaxNum,
\* "B" forks off right above genesis.  A hash is the pair <<branch, number>>.
Genesis == <<"A", 0>>
Hashes == {<<"A", n>> : n \in 0..MaxNum} \cup {<<"B", n>> : n \in 1..MaxNum}

NoHash == <<"-", 0 - 1>>
NoPtr == [number |-> 0 - 1, hash |-> NoHash]

ParentHash(h) ==
    IF h = Genesis THEN NoHash
    ELSE IF h[2] = 1 THEN Genesis
    ELSE <<h[1], h[2] - 1>>

\* EthereumBlockPointer::from(block)
PtrOf(h) == [number |-> h[2], hash |-> h]

\* EthereumBlockPointer::to_parent(block)
ToParentPtr(h) == IF h = Genesis THEN NoPtr ELSE PtrOf(ParentHash(h))

Ptrs == {PtrOf(h) : h \in Hashes}

RECURSIVE AncestorHash(_, _)
AncestorHash(h, k) ==
    IF k = 0 \/ h = NoHash THEN h ELSE AncestorHash(ParentHash(h), k - 1)

\* h lies on the chain that ends at tip (tip included).
OnChain(h, tip) ==
    /\ h[2] <= tip[2]
    /\ AncestorHash(tip, tip[2] - h[2]) = h

\* The block of number n on the chain that ends at tip (n <= tip's number).
AtNumber(tip, n) == AncestorHash(tip, tip[2] - n)

RECURSIVE CommonAncestor(_, _)
CommonAncestor(a, b) ==
    IF a = b THEN a
    ELSE IF a[2] >= b[2] THEN CommonAncestor(ParentHash(a), b)
    ELSE CommonAncestor(a, ParentHash(b))

\* ------------------------------------------------- events, filters, hosts
\* The logs of each block, in log-index order; a log is named by the event
\* kind a filter selects.
EventsIn(h) ==
    IF h = <<"A", 1>> THEN <<"x">>
    ELSE IF h = <<"A", 2>> THEN <<"x", "y">>
    ELSE IF h = <<"B", 2>> THEN <<"y">>
    ELSE <<>>

\* A manifest is the sequence of its data sources; a data source is modelled
\* by the event filter of the host built from it.
Manifests == { <<{"x"}, {"y"}>>, <<{}>>, <<>> }

RECURSIVE SeqUnion(_)
SeqUnion(s) == IF s = <<>> THEN {} ELSE Head(s) \cup SeqUnion(Tail(s))

RECURSIVE FilterSeq(_, _, _)
\* The events of block h (from log index i on) that match filter f.
FilterSeq(h, i, f) ==
    IF i > Len(EventsIn(h)) THEN <<>>
    ELSE IF EventsIn(h)[i] \in f
         THEN <<[block |-> h, log_index |-> i, kind |-> EventsIn(h)[i]]>>
              \o FilterSeq(h, i + 1, f)
         ELSE FilterSeq(h, i + 1, f)

\* EthereumAdapter::get_events_in_block(block, filter)
GetEventsInBlock(h, f) == FilterSeq(h, 1, f)

HasEvents(h, f) == GetEventsInBlock(h, f) /= <<>>

\* ------------------------------------------------------------------- state
VARIABLES
    head,                         \* Store: head block pointer
    block_ptr,                    \* Store: subgraph id -> subgraph block pointer
    entities,                     \* Store: committed entity operations, by block
    runtime_hosts_by_subgraph,    \* registry: id -> slot of the host list (0: none)
    head_block_update_cancelers,  \* registry: id -> slot of the cancel sender (0: none)
    subgraph_events,              \* the task that handles the provider's events
    hosts,                        \* host lists built so far, one per SubgraphAdded
    streams,                      \* slot -> host -> queue of RuntimeHostEvents
    pc,                           \* slot -> position of the head block update task
    cancel_head_block_update,     \* slot -> the task's AtomicBool
    loc,                          \* slot -> locals of the task and of its walker
    lost,                         \* history: a delivery of the current block failed
    mid_cancel,                   \* history: cancelled while delivering a block
    last_reverted,                \* history: id -> block last reverted, not re-entered
    last_send                     \* history: id -> last delivery started in this run

vars == <<head, block_ptr, entities, runtime_hosts_by_subgraph,
          head_block_update_cancelers, subgraph_events, hosts, streams, pc,
          cancel_head_block_update, loc, lost, mid_cancel, last_reverted,
          last_send>>

storeVars == <<block_ptr, entities>>
registryVars == <<runtime_hosts_by_subgraph, head_block_update_cancelers,
                  subgraph_events, hosts>>
historyVars == <<lost, mid_cancel, last_reverted, last_send>>

NoSend == [number |-> 0 - 1, log_index |-> 0, host |-> 0]

NoLoc == [subgraph_id |-> "", head_ptr |-> NoPtr, subgraph_ptr |-> NoPtr,
          event_filter |-> {}, event_sinks |-> 0, new_ptr |-> NoPtr,
          descendant_blocks |-> <<>>, ev |-> 0, sk |-> 0]

\* Positions at which an execution of handle_head_block_update is in flight.
WalkerPcs == {"loop", "read_ptr", "decide", "fast_forward", "to_parent",
              "skip", "send", "await", "commit", "done"}

Spawned(s) == s <= Len(hosts)

\* The host list of slot g was dropped: it was built and is no longer owned
\* by the registry.
HostsDropped(g) ==
    Spawned(g) /\ \A id \in Ids : runtime_hosts_by_subgraph[id] /= g

\* A `canceled` that resolves as soon as the channel exists; C21 tells it
\* from the receiver of the code, which resolves when the sender is dropped.
CancelDropped_AtOnce(s) == Spawned(s)

\* The oneshot sender of slot s was dropped (replaced or removed).
CancelDropped(s) ==
    Spawned(s) /\ \A id \in Ids : head_block_update_cancelers[id] /= s

\* The store mutex is poisoned: a task panicked while it held the guard of
\* `store.lock().unwrap()`.  Every later `store.lock().unwrap()` panics.  The
\* head block pointer is never unset once it is set, so the mutex is poisoned
\* before any walker got past its first read and before any host emitted an
\* entity operation: a task meets the poisoned mutex at the loop head or in
\* SubgraphAdded.
StorePoisoned == \E s \in Slots : pc[s] = "panicked"

\* --------------------------------------------------------- chain adapter
\* The node's main chain is the chain that ends at the current head.
IsOnMainChain(ptr) == OnChain(ptr.hash, head.hash)

BlockByNumber(n) == PtrOf(AtNumber(head.hash, n))

RECURSIVE MatchingPtrs(_, _, _)
\* The main-chain blocks numbered from..to that hold an event matching f.
MatchingPtrs(from, to, f) ==
    IF from > to THEN <<>>
    ELSE IF HasEvents(AtNumber(head.hash, from), f)
         THEN <<AtNumber(head.hash, from)>> \o MatchingPtrs(from + 1, to, f)
         ELSE MatchingPtrs(from + 1, to, f)

\* find_first_blocks_with_events returns the first few matching blocks: any
\* non-empty prefix of the matching blocks, or nothing when none matches.
FindFirstBlocksWithEvents(from, to, f) ==
    LET all == MatchingPtrs(from, to, f)
    IN  IF all = <<>> THEN {<<>>}
        ELSE {SubSeq(all, 1, k) : k \in 1..Len(all)}

\* ------------------------------------------------------------------ store
\* Store::ancestor_block(head_ptr, offset): the block offset parents above
\* head_ptr, or None (NoHash) when the block store was garbage collected
\* after the head moved on.
AncestorBlock(head_ptr, offset) ==
    {AncestorHash(head_ptr.hash, offset)}
        \cup (IF head /= head_ptr THEN {NoHash} ELSE {})

\* Store::set_block_ptr_with_no_changes(id, from, to) succeeds only when the
\* pointer of id is from.
SetBlockPtrOk(id, from) == block_ptr[id] = from

\* Store::revert_block(id, block): the entity operations written for the
\* block are undone and the pointer moves to the parent of the block.
RevertedEntities(id, h) ==
    {m \in entities : ~(m.subgraph = id /\ m.block = h)}

\* The entity operation a host's mapping emits for an event it subscribes to.
Mutation(id, g, k, e) ==
    [op |-> IF e.kind = "x" THEN "EntitySet" ELSE "EntityRemoved",
     subgraph |-> id, block |-> e.block, log_index |-> e.log_index, host |-> k]

\* The entity operations the hosts built from manifest emit for the blocks
\* of the chain that ends at tip: the entities of a subgraph indexed to tip.
RECURSIVE FoldEntities(_, _, _)
FoldEntities(id, manifest, tip) ==
    IF tip = NoHash THEN {}
    ELSE FoldEntities(id, manifest, ParentHash(tip)) \cup
         {Mutation(id, 0, k, [block |-> tip, log_index |-> i,
                                kind |-> EventsIn(tip)[i]]) :
            <<k, i>> \in {t \in (1..Len(manifest)) \X (1..Len(EventsIn(tip))) :
                            EventsIn(tip)[t[2]] \in manifest[t[1]]}}

\* ------------------------------------------------------------------ Init
NoSubgraphs ==
    /\ block_ptr = [id \in Ids |-> NoPtr]
    /\ entities = {}
    /\ runtime_hosts_by_subgraph = [id \in Ids |-> 0]
    /\ head_block_update_cancelers = [id \in Ids |-> 0]
    /\ subgraph_events = "running"
    /\ hosts = <<>>
    /\ streams = [s \in Slots |-> <<>>]
    /\ pc = [s \in Slots |-> "unspawned"]
    /\ cancel_head_block_update = [s \in Slots |-> FALSE]
    /\ loc = [s \in Slots |-> NoLoc]
    /\ lost = [s \in Slots |-> FALSE]
    /\ mid_cancel = [s \in Slots |-> FALSE]
    /\ last_reverted = [id \in Ids |-> NoHash]
    /\ last_send = [id \in Ids |-> NoSend]

Init ==
    /\ head = PtrOf(Genesis)
    /\ NoSubgraphs

\* ------------------------------------------------- subgraph provider events
\* An insert that keeps the host list an id already has; C14 tells it from
\* the insert of the code.
InsertHosts_IfAbsent(id, s) ==
    IF runtime_hosts_by_subgraph[id] /= 0 THEN runtime_hosts_by_subgraph
    ELSE [runtime_hosts_by_subgraph EXCEPT ![id] = s]

\* `runtime_hosts_by_subgraph.lock().unwrap().insert(manifest.id, new_hosts)`
InsertHosts(id, s) == [runtime_hosts_by_subgraph EXCEPT ![id] = s]

\* SubgraphProviderEvent::SubgraphAdded(manifest)
SubgraphAdded(id, manifest) ==
    LET s == Len(hosts) + 1 IN
    /\ subgraph_events = "running"
    /\ s \in Slots
    \* store.lock().unwrap().add_subgraph_if_missing(..)
    /\ ~StorePoisoned
    /\ block_ptr' = IF block_ptr[id] = NoPtr
                    THEN [block_ptr EXCEPT ![id] = PtrOf(Genesis)]
                    ELSE block_ptr
    \* Build one host per data source and spawn their event stream tasks.
    /\ hosts' = Append(hosts, manifest)
    /\ streams' = [streams EXCEPT ![s] = [k \in 1..Len(manifest) |-> <<>>]]
    \* Insert the new hosts; a prior host list of the id is dropped.
    /\ runtime_hosts_by_subgraph' = InsertHosts(id, s)
    \* Spawn the head block update task; a prior cancel sender is dropped.
    /\ pc' = [pc EXCEPT ![s] = "idle"]
    /\ loc' = [loc EXCEPT ![s] = [NoLoc EXCEPT !.subgraph_id = id]]
    /\ head_block_update_cancelers' = [head_block_update_cancelers EXCEPT ![id] = s]
    /\ UNCHANGED <<head, entities, subgraph_events, cancel_head_block_update,
                   historyVars>>

\* SubgraphProviderEvent::SubgraphAdded while the store mutex is poisoned:
\* `store.lock().unwrap()` panics in the task that handles the provider's
\* events, which ends the task.
SubgraphAdded_Panics(id) ==
    /\ subgraph_events = "running"
    /\ StorePoisoned
    /\ subgraph_events' = "panicked"
    /\ UNCHANGED <<head, storeVars, runtime_hosts_by_subgraph,
                   head_block_update_cancelers, hosts, streams, pc,
                   cancel_head_block_update, loc, historyVars>>

\* SubgraphProviderEvent::SubgraphRemoved(subgraph_id) for an id without a
\* cancel sender: the removes find nothing, `assert!(cancel.is_some())`
\* panics in the task that handles the provider's events, which ends the
\* task.  No mutex guard is alive at the assert.
SubgraphRemoved_Panics(id) ==
    /\ subgraph_events = "running"
    /\ head_block_update_cancelers[id] = 0
    /\ runtime_hosts_by_subgraph' = [runtime_hosts_by_subgraph EXCEPT ![id] = 0]
    /\ subgraph_events' = "panicked"
    /\ UNCHANGED <<head, storeVars, head_block_update_cancelers, hosts,
                   streams, pc, cancel_head_block_update, loc, historyVars>>

\* A removal that drops the hosts and leaves the cancel sender in the
\* registry; C25 tells it from the removal of the code.
SubgraphRemoved_KeepsCancel(id) ==
    /\ subgraph_events = "running"
    /\ head_block_update_cancelers[id] /= 0
    /\ runtime_hosts_by_subgraph' = [runtime_hosts_by_subgraph EXCEPT ![id] = 0]
    /\ UNCHANGED <<head, storeVars, head_block_update_cancelers,
                   subgraph_events, hosts, streams, pc,
                   cancel_head_block_update, loc, historyVars>>

\* A removal that drops the cancel sender and leaves the hosts in the
\* registry; C22 tells it from the removal of the code.
SubgraphRemoved_KeepsHosts(id) ==
    /\ subgraph_events = "running"
    /\ head_block_update_cancelers[id] /= 0
    /\ head_block_update_cancelers' = [head_block_update_cancelers EXCEPT ![id] = 0]
    /\ UNCHANGED <<head, storeVars, runtime_hosts_by_subgraph, subgraph_events,
                   hosts, streams, pc, cancel_head_block_update, loc,
                   historyVars>>

\* SubgraphProviderEvent::SubgraphRemoved(subgraph_id)
SubgraphRemoved(id) ==
    /\ subgraph_events = "running"
    \* assert!(cancel.is_some())
    /\ head_block_update_cancelers[id] /= 0
    /\ runtime_hosts_by_subgraph' = [runtime_hosts_by_subgraph EXCEPT ![id] = 0]
    /\ head_block_update_cancelers' = [head_block_update_cancelers EXCEPT ![id] = 0]
    /\ UNCHANGED <<head, storeVars, subgraph_events, hosts, streams, pc,
                   cancel_head_block_update, loc, historyVars>>

\* Positions between the first send of a block and its pointer commit.
Delivering(s) ==
    \/ pc[s] = "await"
    \/ pc[s] = "send" /\ (loc[s].ev > 1 \/ loc[s].sk > 1)
    \/ pc[s] = "commit" /\ GetEventsInBlock(Head(loc[s].descendant_blocks),
                                            loc[s].event_filter) /= <<>>

\* The task spawned on `canceled`: runs once the cancel sender was dropped.
CancelTask(s) ==
    /\ CancelDropped(s)
    /\ ~cancel_head_block_update[s]
    /\ cancel_head_block_update' = [cancel_head_block_update EXCEPT ![s] = TRUE]
    /\ mid_cancel' = [mid_cancel EXCEPT ![s] = Delivering(s)]
    /\ UNCHANGED <<head, storeVars, registryVars, streams, pc, loc, lost,
                   last_reverted, last_send>>

\* The block ingestor moves the head block pointer.  The head number never
\* decreases and a reorganisation is at most REORG_THRESHOLD blocks deep.
NewHead(h) ==
    /\ head /= NoPtr
    /\ h /= head.hash
    /\ h[2] >= head.number
    /\ head.number - CommonAncestor(head.hash, h)[2] <= REORG_THRESHOLD
    /\ head' = PtrOf(h)
    /\ UNCHANGED <<storeVars, registryVars, streams, pc,
                   cancel_head_block_update, loc, historyVars>>

\* The block ingestor sets the head block pointer for the first time.
FirstHead(h) ==
    /\ head = NoPtr
    /\ head' = PtrOf(h)
    /\ UNCHANGED <<storeVars, registryVars, streams, pc,
                   cancel_head_block_update, loc, historyVars>>

\* ------------------------------------------------ head block update task
Goto(s, p, l) ==
    /\ pc' = [pc EXCEPT ![s] = p]
    /\ loc' = [loc EXCEPT ![s] = l]

\* A closure that returns Err(()) where the code returns Ok(()), which ends
\* the for_each of the task; C13 tells it from the closure of the code.
Return_Unsubscribed(s) ==
    /\ Goto(s, "dead", NoLoc)
    /\ lost' = [lost EXCEPT ![s] = FALSE]
    /\ mid_cancel' = [mid_cancel EXCEPT ![s] = FALSE]

\* The closure handed to head_block_updates.for_each returns Ok(()): the
\* task waits for the next head block update.
Return(s) ==
    /\ Goto(s, "idle", [NoLoc EXCEPT !.subgraph_id = loc[s].subgraph_id])
    /\ lost' = [lost EXCEPT ![s] = FALSE]
    /\ mid_cancel' = [mid_cancel EXCEPT ![s] = FALSE]

\* A head block update arrives at the task of slot s.
ReceiveToken(s) ==
    /\ pc[s] = "idle"
    /\ Goto(s, "token", loc[s])
    /\ UNCHANGED <<head, storeVars, registryVars, streams,
                   cancel_head_block_update, historyVars>>

\* A test that passes a host list that is registered and empty; C26 tells it
\* from the test of the code.
NoRuntimeHosts_MissingOnly(g) == g = 0

\* `runtime_hosts_by_subgraph.get(&subgraph_id).unwrap_or(&tmp)` and
\* `runtime_hosts.is_empty()`, for the slot g registered under the id.
NoRuntimeHosts(g) == g = 0 \/ hosts[g] = <<>>

\* The body of the for_each closure up to the call of
\* handle_head_block_update.
WatcherCheck(s) ==
    LET id == loc[s].subgraph_id
        g == runtime_hosts_by_subgraph[id]
    IN
    /\ pc[s] = "token"
    /\ IF cancel_head_block_update[s]
       THEN Goto(s, "dead", NoLoc)
       ELSE IF NoRuntimeHosts(g)
       THEN Goto(s, "idle", loc[s])
       ELSE Goto(s, "loop", [loc[s] EXCEPT !.event_filter = SeqUnion(hosts[g]),
                                           !.event_sinks = g])
    /\ UNCHANGED <<head, storeVars, registryVars, streams,
                   cancel_head_block_update, historyVars>>

\* ---------------------------------------------- handle_head_block_update
EventsPc(h, f) == IF GetEventsInBlock(h, f) = <<>> THEN "commit" ELSE "send"

\* A loop body without the write over the gap; C19 tells it from the loop
\* body of the code.
StartBlockPc_NoSkip(sub, blocks, f) == EventsPc(Head(blocks), f)

\* Top of the body of `for descendant_block in descendant_blocks`.
StartBlockPc(sub, blocks, f) ==
    IF sub /= ToParentPtr(Head(blocks)) THEN "skip"
    ELSE EventsPc(Head(blocks), f)

\* Locals that keep the pointer read at the loop head instead of tracking
\* the pointer written last; C23 tells them from the locals of the code.
StartBlockLoc_StalePtr(l, sub, blocks) ==
    LET first == IF StartBlockPc(sub, blocks, l.event_filter) = "send"
                 THEN 1 ELSE 0
    IN  [l EXCEPT !.descendant_blocks = blocks, !.ev = first, !.sk = first]

StartBlockLoc(l, sub, blocks) ==
    LET first == IF StartBlockPc(sub, blocks, l.event_filter) = "send"
                 THEN 1 ELSE 0
    IN  [l EXCEPT !.subgraph_ptr = sub, !.descendant_blocks = blocks,
                  !.ev = first, !.sk = first]

\* History: the walker starts to deliver block h of id (p is its next
\* position), or it wrote the pointer of id (wrote): the last revert is then
\* no longer the last operation on the block.
Entering(id, p, h, wrote) ==
    last_reverted' = IF wrote \/ (p /= "skip" /\ last_reverted[id] = h)
                     THEN [last_reverted EXCEPT ![id] = NoHash]
                     ELSE last_reverted

\* A caught-up test that exits only once the subgraph is past the head; C8
\* tells it from the test of the code.
CaughtUp_Strict(subgraph_ptr, head_ptr) == subgraph_ptr.number > head_ptr.number

\* A mode test that takes safe mode at a distance of exactly REORG_THRESHOLD;
\* C9 tells it from the test of the code.
BeyondReorgThreshold_Inclusive(head_ptr, subgraph_ptr) ==
    (head_ptr.number - subgraph_ptr.number) >= REORG_THRESHOLD

\* A caught-up test that exits only when the two pointers are equal; C17
\* tells it from the test of the code.
CaughtUp_SamePtr(subgraph_ptr, head_ptr) == subgraph_ptr = head_ptr

\* A mode test that still takes the near-head step one block beyond
\* REORG_THRESHOLD; C16 tells it from the test of the code.
BeyondReorgThreshold_Late(head_ptr, subgraph_ptr) ==
    (head_ptr.number - subgraph_ptr.number) > REORG_THRESHOLD + 1

\* `if subgraph_ptr.number >= head_ptr.number { break; }`
CaughtUp(subgraph_ptr, head_ptr) == subgraph_ptr.number >= head_ptr.number

\* `if (head_ptr.number - subgraph_ptr.number) > REORG_THRESHOLD`
BeyondReorgThreshold(head_ptr, subgraph_ptr) ==
    (head_ptr.number - subgraph_ptr.number) > REORG_THRESHOLD

\* A range that ends one block above the reorg threshold; C24 tells it from
\* the range of the code.
RangeTo_Above(head_ptr) == head_ptr.number - REORG_THRESHOLD + 1

\* A range that ends at the head; C18 tells it from the range of the code.
RangeTo_Head(head_ptr) == head_ptr.number

\* `let to = head_ptr.number - REORG_THRESHOLD;`
RangeTo(head_ptr) == head_ptr.number - REORG_THRESHOLD

\* A walk back to subgraph_ptr.number itself; C20 tells it from the offset of
\* the code.
Offset_ToSubgraphPtr(head_ptr, subgraph_ptr) ==
    head_ptr.number - subgraph_ptr.number

\* `let offset = head_ptr.number - subgraph_ptr.number - 1;`
Offset(head_ptr, subgraph_ptr) == head_ptr.number - subgraph_ptr.number - 1

\* The locals of an iteration go out of scope when the loop repeats.
LoopLoc(l) ==
    [l EXCEPT !.head_ptr = NoPtr, !.subgraph_ptr = NoPtr, !.new_ptr = NoPtr,
              !.descendant_blocks = <<>>, !.ev = 0, !.sk = 0]

\* `while !cancelled.load(..)` and the read of the head block pointer:
\* `store.lock().unwrap().head_block_ptr()?.expect(..)` panics when there is
\* no head block pointer, while the guard of the store mutex is alive.
Walker_LoopHead(s) ==
    /\ pc[s] = "loop"
    /\ IF cancel_head_block_update[s]
       THEN Return(s)
       ELSE IF StorePoisoned \/ head = NoPtr
       THEN /\ Goto(s, "panicked", NoLoc)
            /\ UNCHANGED <<lost, mid_cancel>>
       ELSE /\ Goto(s, "read_ptr", [loc[s] EXCEPT !.head_ptr = head])
            /\ UNCHANGED <<lost, mid_cancel>>
    /\ UNCHANGED <<head, storeVars, registryVars, streams,
                   cancel_head_block_update, last_reverted, last_send>>

\* The read of the subgraph block pointer and the caught-up test.
Walker_ReadSubgraphPtr(s) ==
    LET sub == block_ptr[loc[s].subgraph_id] IN
    /\ pc[s] = "read_ptr"
    /\ Goto(s, IF CaughtUp(sub, loc[s].head_ptr) THEN "done" ELSE "decide",
            [loc[s] EXCEPT !.subgraph_ptr = sub])
    /\ UNCHANGED <<head, storeVars, registryVars, streams,
                   cancel_head_block_update, historyVars>>

\* `break` was taken: handle_head_block_update returns Ok(()).
Walker_Done(s) ==
    /\ pc[s] = "done"
    /\ Return(s)
    /\ UNCHANGED <<head, storeVars, registryVars, streams,
                   cancel_head_block_update, last_reverted, last_send>>

\* The block `let step = { .. }`: the cancel check and the choice of the
\* step, by block number beyond REORG_THRESHOLD and by the block store within.
Walker_DecideStep(s) ==
    LET l == loc[s]
        id == l.subgraph_id
        sub == l.subgraph_ptr
        from == sub.number + 1
        to == RangeTo(l.head_ptr)
        offset == Offset(l.head_ptr, sub)
    IN
    /\ pc[s] = "decide"
    /\ IF cancel_head_block_update[s]
       THEN Return(s) /\ UNCHANGED last_reverted
       ELSE /\ UNCHANGED <<lost, mid_cancel>>
            /\ IF BeyondReorgThreshold(l.head_ptr, sub)
               THEN IF IsOnMainChain(sub)
                    THEN \E descendant_ptrs \in
                              FindFirstBlocksWithEvents(from, to, l.event_filter) :
                           IF descendant_ptrs = <<>>
                           THEN /\ Goto(s, "fast_forward",
                                        [l EXCEPT !.new_ptr = BlockByNumber(to)])
                                /\ UNCHANGED last_reverted
                           ELSE /\ Goto(s, StartBlockPc(sub, descendant_ptrs,
                                                        l.event_filter),
                                        StartBlockLoc(l, sub, descendant_ptrs))
                                /\ Entering(id, StartBlockPc(sub, descendant_ptrs,
                                                             l.event_filter),
                                            Head(descendant_ptrs), FALSE)
                    ELSE Goto(s, "to_parent", l) /\ UNCHANGED last_reverted
               ELSE \E ancestor_block \in AncestorBlock(l.head_ptr, offset) :
                      IF ancestor_block = NoHash
                      THEN Goto(s, "loop", LoopLoc(l)) /\ UNCHANGED last_reverted
                      ELSE IF ParentHash(ancestor_block) = sub.hash
                      THEN /\ Goto(s, StartBlockPc(sub, <<ancestor_block>>,
                                                   l.event_filter),
                                   StartBlockLoc(l, sub, <<ancestor_block>>))
                           /\ Entering(id, StartBlockPc(sub, <<ancestor_block>>,
                                                        l.event_filter),
                                       ancestor_block, FALSE)
                      ELSE Goto(s, "to_parent", l) /\ UNCHANGED last_reverted
    /\ UNCHANGED <<head, storeVars, registryVars, streams,
                   cancel_head_block_update, last_send>>

\* No matching events in range: set_block_ptr_with_no_changes(id,
\* subgraph_ptr, new_ptr) and `continue`.
Walker_FastForward(s) ==
    LET l == loc[s]
        id == l.subgraph_id
    IN
    /\ pc[s] = "fast_forward"
    /\ IF SetBlockPtrOk(id, l.subgraph_ptr)
       THEN /\ block_ptr' = [block_ptr EXCEPT ![id] = l.new_ptr]
            /\ Goto(s, "loop", LoopLoc(l))
            /\ Entering(id, "loop", NoHash, TRUE)
            /\ UNCHANGED <<lost, mid_cancel>>
       ELSE /\ Return(s)
            /\ UNCHANGED <<block_ptr, last_reverted>>
    /\ UNCHANGED <<head, entities, registryVars, streams,
                   cancel_head_block_update, last_send>>

\* Step::ToParent: fetch the block at subgraph_ptr.hash and revert it.
Walker_ToParent(s) ==
    LET l == loc[s]
        id == l.subgraph_id
        block == l.subgraph_ptr.hash
    IN
    /\ pc[s] = "to_parent"
    /\ entities' = RevertedEntities(id, block)
    /\ block_ptr' = [block_ptr EXCEPT ![id] = ToParentPtr(block)]
    /\ last_reverted' = [last_reverted EXCEPT ![id] = block]
    /\ last_send' = [last_send EXCEPT ![id] = NoSend]
    /\ Goto(s, "loop", LoopLoc(l))
    /\ UNCHANGED <<head, registryVars, streams, cancel_head_block_update,
                   lost, mid_cancel>>

\* descendant_block is not a direct child: skip the irrelevant blocks.
Walker_SkipGap(s) ==
    LET l == loc[s]
        id == l.subgraph_id
        b == Head(l.descendant_blocks)
        p == EventsPc(b, l.event_filter)
    IN
    /\ pc[s] = "skip"
    /\ IF SetBlockPtrOk(id, l.subgraph_ptr)
       THEN /\ block_ptr' = [block_ptr EXCEPT ![id] = ToParentPtr(b)]
            /\ Goto(s, p, StartBlockLoc(l, ToParentPtr(b), l.descendant_blocks))
            /\ Entering(id, p, b, TRUE)
            /\ UNCHANGED <<lost, mid_cancel>>
       ELSE /\ Return(s)
            /\ UNCHANGED <<block_ptr, last_reverted>>
    /\ UNCHANGED <<head, entities, registryVars, streams,
                   cancel_head_block_update, last_send>>

\* The events of the block being delivered, as get_events_in_block gave them.
Events(l) == GetEventsInBlock(Head(l.descendant_blocks), l.event_filter)

\* The filter of the host behind event sink k of the walker.
SinkFilter(l, k) == hosts[l.event_sinks][k]

\* A fan-out that gives up the block's remaining deliveries once a delivery
\* completed or failed; C11 tells it from the fan-out of the code.
AdvancePc_Abort(l) == "commit"

\* `events.iter().for_each(|event| event_sinks.iter_mut().for_each(..))`:
\* the position after the delivery at (ev, sk) completed or failed.
AdvancePc(l) ==
    IF l.sk < Len(hosts[l.event_sinks]) \/ l.ev < Len(Events(l))
    THEN "send" ELSE "commit"

AdvanceLoc(l) ==
    IF l.sk < Len(hosts[l.event_sinks]) THEN [l EXCEPT !.sk = @ + 1]
    ELSE IF l.ev < Len(Events(l)) THEN [l EXCEPT !.ev = @ + 1, !.sk = 1]
    ELSE [l EXCEPT !.ev = 0, !.sk = 0]

\* History: the delivery at (ev, sk) failed for a host that subscribes to
\* the event.
Failed(s) ==
    lost' = [lost EXCEPT ![s] = @ \/ Events(loc[s])[loc[s].ev].kind
                                        \in SinkFilter(loc[s], loc[s].sk)]

\* event_sink.send((event, confirm)): fails at once when the host was dropped.
Walker_Send(s) ==
    LET l == loc[s]
        e == Events(l)[l.ev]
    IN
    /\ pc[s] = "send"
    /\ IF HostsDropped(l.event_sinks)
       THEN /\ Goto(s, AdvancePc(l), AdvanceLoc(l))
            /\ Failed(s)
            /\ UNCHANGED last_send
       ELSE /\ Goto(s, "await", l)
            /\ last_send' = [last_send EXCEPT ![l.subgraph_id] =
                                [number |-> e.block[2], log_index |-> e.log_index,
                                 host |-> l.sk]]
            /\ UNCHANGED lost
    /\ UNCHANGED <<head, storeVars, registryVars, streams,
                   cancel_head_block_update, mid_cancel, last_reverted>>

\* The host runs its mapping on the event, emits the entity operation into
\* its event stream and confirms; a dropped host fails the confirmation.
Host_Confirm(s) ==
    LET l == loc[s]
        g == l.event_sinks
        e == Events(l)[l.ev]
    IN
    /\ pc[s] = "await"
    /\ HostsDropped(g) \/ e.kind \notin SinkFilter(l, l.sk)
          \/ Len(streams[g][l.sk]) < MaxStream
    /\ Goto(s, AdvancePc(l), AdvanceLoc(l))
    /\ IF HostsDropped(g)
       THEN Failed(s) /\ UNCHANGED streams
       ELSE /\ UNCHANGED lost
            /\ streams' = IF e.kind \in SinkFilter(l, l.sk)
                          THEN [streams EXCEPT ![g][l.sk] =
                                   Append(@, Mutation(l.subgraph_id, g, l.sk, e))]
                          ELSE streams
    /\ UNCHANGED <<head, storeVars, registryVars, cancel_head_block_update,
                   mid_cancel, last_reverted, last_send>>

\* The host's mapping fails on an event the host subscribes to: the host
\* confirms with Err and emits no entity operation; `.ok()` drops the error.
Host_ConfirmErr(s) ==
    LET l == loc[s]
        g == l.event_sinks
        e == Events(l)[l.ev]
    IN
    /\ pc[s] = "await"
    /\ ~HostsDropped(g)
    /\ e.kind \in SinkFilter(l, l.sk)
    /\ Goto(s, AdvancePc(l), AdvanceLoc(l))
    /\ Failed(s)
    /\ UNCHANGED <<head, storeVars, registryVars, streams,
                   cancel_head_block_update, mid_cancel, last_reverted, last_send>>

\* A call of the store or of the chain adapter returns Err and `?` leaves
\* handle_head_block_update: the reads at the loop head, the calls of the
\* step decision, the pointer writes, revert_block and get_events_in_block
\* (before the first send of a block).
Walker_Error(s) ==
    /\ \/ pc[s] \in {"loop", "decide"} /\ ~cancel_head_block_update[s]
       \/ pc[s] \in {"read_ptr", "fast_forward", "to_parent", "skip", "commit"}
       \/ pc[s] = "send" /\ loc[s].ev = 1 /\ loc[s].sk = 1
    /\ Goto(s, "failed", LoopLoc(loc[s]))
    /\ UNCHANGED <<head, storeVars, registryVars, streams,
                   cancel_head_block_update, historyVars>>

\* `.err().map(|e| warn!(..))`: the closure logs the error of the walker and
\* returns Ok(()).
Watcher_LogError(s) ==
    /\ pc[s] = "failed"
    /\ Return(s)
    /\ UNCHANGED <<head, storeVars, registryVars, streams,
                   cancel_head_block_update, last_reverted, last_send>>

\* set_block_ptr_with_no_changes(id, subgraph_ptr, descendant_ptr) after the
\* fan-out, then the next descendant block or the next loop iteration.
Walker_CommitPtr(s) ==
    LET l == loc[s]
        id == l.subgraph_id
        descendant_ptr == PtrOf(Head(l.descendant_blocks))
        rest == Tail(l.descendant_blocks)
    IN
    /\ pc[s] = "commit"
    /\ lost' = [lost EXCEPT ![s] = FALSE]
    /\ mid_cancel' = [mid_cancel EXCEPT ![s] = FALSE]
    /\ IF SetBlockPtrOk(id, l.subgraph_ptr)
       THEN /\ block_ptr' = [block_ptr EXCEPT ![id] = descendant_ptr]
            /\ Entering(id, "loop", NoHash, TRUE)
            /\ IF rest = <<>>
               THEN Goto(s, "loop", LoopLoc(l))
               ELSE Goto(s, StartBlockPc(descendant_ptr, rest, l.event_filter),
                         StartBlockLoc(l, descendant_ptr, rest))
       ELSE /\ Goto(s, "idle", [NoLoc EXCEPT !.subgraph_id = id])
            /\ UNCHANGED <<block_ptr, last_reverted>>
    /\ UNCHANGED <<head, entities, registryVars, streams,
                   cancel_head_block_update, last_send>>

\* ------------------------------------------- runtime event stream handler
\* handle_runtime_event for the next RuntimeHostEvent of host k of slot g:
\* a transaction on (subgraph, block) that sets or deletes the entity and
\* commits without a pointer update.  The task drains what the host emitted
\* even after the host was dropped.
HandleRuntimeEvent(g, k) ==
    /\ Spawned(g)
    /\ k \in DOMAIN streams[g]
    /\ streams[g][k] /= <<>>
    /\ entities' = entities \cup {Head(streams[g][k])}
    /\ streams' = [streams EXCEPT ![g][k] = Tail(@)]
    /\ UNCHANGED <<head, block_ptr, registryVars, pc, cancel_head_block_update,
                   loc, historyVars>>

\* ------------------------------------------------------------------- Next
WalkerStep(s) ==
    \/ Walker_LoopHead(s)
    \/ Walker_ReadSubgraphPtr(s)
    \/ Walker_DecideStep(s)
    \/ Walker_FastForward(s)
    \/ Walker_ToParent(s)
    \/ Walker_SkipGap(s)
    \/ Walker_Send(s)
    \/ Host_Confirm(s)
    \/ Walker_CommitPtr(s)
    \/ Walker_Done(s)

\* The runs in which the provider adds the subgraph once (and may remove it),
\* over the whole block tree.
FirstAdded(id, manifest) ==
    /\ hosts = <<>>
    /\ SubgraphAdded(id, manifest)

Next ==
    \/ \E id \in Ids, manifest \in Manifests : FirstAdded(id, manifest)
    \/ \E id \in Ids : SubgraphRemoved(id)
    \/ \E s \in Slots : CancelTask(s)
    \/ \E h \in Hashes : NewHead(h)
    \/ \E s \in Slots : ReceiveToken(s)
    \/ \E s \in Slots : WatcherCheck(s)
    \/ \E s \in Slots : WalkerStep(s)
    \/ \E g \in Slots, k \in 1..2 : HandleRuntimeEvent(g, k)

Spec == Init /\ [][Next]_vars

\* The runs in which the provider adds the subgraph again (with or without a
\* removal in between) while the head moves to the first block of branch "A"
\* and on to branch "B"; every step is then taken within REORG_THRESHOLD.
ReaddManifests == { <<{"x"}, {"y"}>> }
ReaddHeads == {<<"A", 1>>, <<"B", 2>>}

NearHeadStep(s) ==
    \/ Walker_LoopHead(s)
    \/ Walker_ReadSubgraphPtr(s)
    \/ Walker_DecideStep(s)
    \/ Walker_ToParent(s)
    \/ Walker_Send(s)
    \/ Host_Confirm(s)
    \/ Walker_CommitPtr(s)
    \/ Walker_Done(s)

NextReadd ==
    \/ \E id \in Ids, manifest \in ReaddManifests : SubgraphAdded(id, manifest)
    \/ \E id \in Ids : SubgraphRemoved(id)
    \/ \E s \in Slots : CancelTask(s)
    \/ \E h \in ReaddHeads : NewHead(h)
    \/ \E s \in Slots : ReceiveToken(s)
    \/ \E s \in Slots : WatcherCheck(s)
    \/ \E s \in Slots : NearHeadStep(s)
    \/ \E g \in Slots, k \in 1..2 : HandleRuntimeEvent(g, k)

SpecReadd == Init /\ [][NextReadd]_vars

\* The runs that start before the block ingestor has set the head block
\* pointer; head block updates may already reach the tasks.
InitNoHead ==
    /\ head = NoPtr
    /\ NoSubgraphs

NoHeadFirst == {Genesis, <<"A", 1>>}
NoHeadNext == {<<"A", 1>>, <<"A", 2>>}

AdvanceStep(s) ==
    \/ Walker_LoopHead(s)
    \/ Walker_ReadSubgraphPtr(s)
    \/ Walker_DecideStep(s)
    \/ Walker_Send(s)
    \/ Host_Confirm(s)
    \/ Walker_CommitPtr(s)
    \/ Walker_Done(s)

NextNoHead ==
    \/ \E id \in Ids, manifest \in ReaddManifests : SubgraphAdded(id, manifest)
    \/ \E id \in Ids : SubgraphAdded_Panics(id)
    \/ \E id \in Ids : SubgraphRemoved(id)
    \/ \E s \in Slots : CancelTask(s)
    \/ \E h \in NoHeadFirst : FirstHead(h)
    \/ \E h \in NoHeadNext : NewHead(h)
    \/ \E s \in Slots : ReceiveToken(s)
    \/ \E s \in Slots : WatcherCheck(s)
    \/ \E s \in Slots : AdvanceStep(s)
    \/ \E g \in Slots, k \in 1..2 : HandleRuntimeEvent(g, k)

SpecNoHead == InitNoHead /\ [][NextNoHead]_vars

\* The runs of one subgraph in which, in addition, a host's mapping may fail
\* and a call of the store or of the chain adapter may return an error; the
\* head stays within REORG_THRESHOLD of the subgraph.
FaultHeads == {<<"A", 1>>, <<"A", 2>>, <<"B", 2>>}

NextFaults ==
    \/ \E id \in Ids, manifest \in Manifests : FirstAdded(id, manifest)
    \/ \E id \in Ids : SubgraphRemoved(id)
    \/ \E s \in Slots : CancelTask(s)
    \/ \E h \in FaultHeads : NewHead(h)
    \/ \E s \in Slots : ReceiveToken(s)
    \/ \E s \in Slots : WatcherCheck(s)
    \/ \E s \in Slots : NearHeadStep(s)
    \/ \E g \in Slots, k \in 1..2 : HandleRuntimeEvent(g, k)
    \/ \E s \in Slots : Host_ConfirmErr(s)
    \/ \E s \in Slots : Walker_Error(s)
    \/ \E s \in Slots : Watcher_LogError(s)

SpecFaults == Init /\ [][NextFaults]_vars

\* The runs in which the provider sends any sequence of SubgraphAdded and
\* SubgraphRemoved, a removal of an id that is not registered included,
\* while the head moves to the first block of branch "A".
RegistryHeads == {<<"A", 1>>}

NextRegistry ==
    \/ \E id \in Ids, manifest \in Manifests : SubgraphAdded(id, manifest)
    \/ \E id \in Ids : SubgraphRemoved(id)
    \/ \E id \in Ids : SubgraphRemoved_Panics(id)
    \/ \E s \in Slots : CancelTask(s)
    \/ \E h \in RegistryHeads : NewHead(h)
    \/ \E s \in Slots : ReceiveToken(s)
    \/ \E s \in Slots : WatcherCheck(s)
    \/ \E s \in Slots : AdvanceStep(s)
    \/ \E g \in Slots, k \in 1..2 : HandleRuntimeEvent(g, k)

SpecRegistry == Init /\ [][NextRegistry]_vars

\* A running system at rest under a head that no longer moves: the subgraph
\* is registered with one host list, it was indexed to some block that is at
\* most REORG_THRESHOLD blocks off the head's chain, and its task waits for
\* a head block update.
InitFixed ==
    /\ head \in Ptrs
    /\ hosts \in {<<manifest>> : manifest \in Manifests}
    /\ block_ptr \in {[id \in Ids |-> p] : p \in
          {q \in Ptrs : q.number - CommonAncestor(q.hash, head.hash)[2]
                            <= REORG_THRESHOLD}}
    /\ entities = UNION {FoldEntities(id, hosts[1], block_ptr[id].hash) : id \in Ids}
    /\ runtime_hosts_by_subgraph = [id \in Ids |-> 1]
    /\ head_block_update_cancelers = [id \in Ids |-> 1]
    /\ subgraph_events = "running"
    /\ streams = [s \in Slots |->
                    IF s = 1 THEN [k \in 1..Len(hosts[1]) |-> <<>>] ELSE <<>>]
    /\ pc = [s \in Slots |-> IF s = 1 THEN "idle" ELSE "unspawned"]
    /\ cancel_head_block_update = [s \in Slots |-> FALSE]
    /\ loc = [s \in Slots |->
                IF s = 1 THEN [NoLoc EXCEPT !.subgraph_id = CHOOSE id \in Ids : TRUE]
                ELSE NoLoc]
    /\ lost = [s \in Slots |-> FALSE]
    /\ mid_cancel = [s \in Slots |-> FALSE]
    /\ last_reverted = [id \in Ids |-> NoHash]
    /\ last_send = [id \in Ids |-> NoSend]

TaskStep == \E s \in Slots : ReceiveToken(s) \/ WatcherCheck(s) \/ WalkerStep(s)

StreamStep == \E g \in Slots, k \in 1..2 : HandleRuntimeEvent(g, k)

NextFixed == TaskStep \/ StreamStep

\* The executor runs every task that can take a step, and a head block
\* update reaches a task that waits for one.
SpecFixed ==
    InitFixed /\ [][NextFixed]_vars /\ WF_vars(TaskStep) /\ WF_vars(StreamStep)

\* ------------------------------------------------------------ properties
IdOf(s) == loc[s].subgraph_id

\* The walkers of id that are in flight.
InFlight(id) == {s \in Slots : pc[s] \in WalkerPcs /\ IdOf(s) = id}

\* C1: at most one execution of handle_head_block_update is in flight for a
\* subgraph id at any time, also when SubgraphAdded arrives again for an id
\* that is already registered.
C1_AtMostOneWalker == \A id \in Ids : Cardinality(InFlight(id)) <= 1

\* id was added and the handling of SubgraphRemoved(id) has returned.
Removed(id) == hosts /= <<>> /\ head_block_update_cancelers[id] = 0

EntitiesOf(id) == {m \in entities : m.subgraph = id}

\* C2: once SubgraphRemoved(id) has been handled, no store write tagged with
\* id occurs: neither the pointer of id nor its entities change.
C2_NoWriteAfterRemoved ==
    [][\A id \in Ids :
          (Removed(id) /\ Removed(id)') =>
              /\ block_ptr'[id] = block_ptr[id]
              /\ EntitiesOf(id)' = EntitiesOf(id)]_vars

\* Walker s commits the pointer of its subgraph to the block it delivered.
Advances(s) ==
    /\ pc[s] = "commit"
    /\ block_ptr[IdOf(s)] /= PtrOf(Head(loc[s].descendant_blocks))
    /\ block_ptr'[IdOf(s)] = PtrOf(Head(loc[s].descendant_blocks))

\* C3: when cancellation fires while the walker is delivering the events of
\* a block (after the first send, before the pointer commit), the walker
\* does not advance the subgraph pointer to that block.
C3_CancelKeepsPointer ==
    [][\A s \in Slots : mid_cancel[s] => ~Advances(s)]_vars

\* The entity operations that hosts emitted and no task has committed yet.
Uncommitted ==
    {streams[g][k][i] : <<g, k, i>> \in
        {t \in Slots \X (1..2) \X (1..MaxStream) :
            /\ Spawned(t[1])
            /\ t[2] \in DOMAIN streams[t[1]]
            /\ t[3] <= Len(streams[t[1]][t[2]])}}

\* C4: the subgraph pointer is never at a block while an entity operation
\* written for that block is still uncommitted in a host's event stream.
C4_CommittedBeforePointer ==
    \A m \in Uncommitted : block_ptr[m.subgraph].hash /= m.block

\* The blocks the pointer passes when it moves forward from old to new.
PassedBlocks(old, new) ==
    {AtNumber(new.hash, n) : n \in (old.number + 1)..new.number}

\* Slot s takes a step.
Acting(s) == <<pc[s], loc[s]>>' /= <<pc[s], loc[s]>>

\* C5: whenever the pointer moves forward, every block it passes either holds
\* no event matching the union filter or is the block the walker delivered,
\* and then every matching event reached every host that subscribes to it.
C5_NoSkippedEvents ==
    [][\A s \in Slots :
          (/\ Acting(s)
           /\ pc[s] \in WalkerPcs
           /\ block_ptr'[IdOf(s)].number > block_ptr[IdOf(s)].number) =>
              \A b \in PassedBlocks(block_ptr[IdOf(s)], block_ptr'[IdOf(s)]) :
                  IF pc[s] = "commit" /\ b = Head(loc[s].descendant_blocks)
                  THEN ~lost[s]
                  ELSE ~HasEvents(b, loc[s].event_filter)]_vars

\* C6: when the walker exits as caught up with a head that is at least as
\* long as the branch the subgraph had reached, the pointer lies on the
\* head's branch and the entities are those of that branch.
C6_ReorgCorrectness ==
    \A s \in Slots :
        (pc[s] = "done" /\ loc[s].head_ptr.number >= loc[s].subgraph_ptr.number) =>
            /\ OnChain(block_ptr[IdOf(s)].hash, loc[s].head_ptr.hash)
            /\ EntitiesOf(IdOf(s)) =
                   FoldEntities(IdOf(s), hosts[loc[s].event_sinks],
                                block_ptr[IdOf(s)].hash)

\* C7: after the walker advanced through a block and reverted it, the store
\* holds the pointer and the entities it held before the advance: the
\* pointer is at the parent and no entity operation of the block is left.
C7_RoundTrip ==
    \A id \in Ids :
        last_reverted[id] /= NoHash =>
            /\ block_ptr[id] = ToParentPtr(last_reverted[id])
            /\ \A m \in EntitiesOf(id) : m.block /= last_reverted[id]

SendBefore(a, b) ==
    \/ a.number < b.number
    \/ a.number = b.number /\ a.log_index < b.log_index
    \/ a.number = b.number /\ a.log_index = b.log_index /\ a.host < b.host

\* C10: deliveries of one subgraph are sequential and ordered: at most one
\* delivery is unconfirmed at any time, and within a run without revert each
\* send follows the previous one in (block number, log index, host) order.
C10_SequentialOrdered ==
    /\ [](\A id \in Ids :
            Cardinality({s \in Slots : pc[s] = "await" /\ IdOf(s) = id}) <= 1)
    /\ [][\A id \in Ids :
            (/\ last_send'[id] /= last_send[id]
             /\ last_send[id] /= NoSend
             /\ last_send'[id] /= NoSend) =>
                SendBefore(last_send[id], last_send'[id])]_vars

\* C8: with a fixed head and no error or cancellation, a walker that read a
\* subgraph pointer behind the head exits, it exits only through the
\* caught-up test, and at that exit the subgraph pointer is the head pointer.
C8_Termination ==
    /\ [][\A s \in Slots :
            (pc[s] \in WalkerPcs /\ pc'[s] \notin WalkerPcs) => pc[s] = "done"]_vars
    /\ \A s \in Slots :
          (pc[s] = "decide") ~> (pc[s] = "done" /\ block_ptr[IdOf(s)] = head)

\* C8 witness: a walker exits at the head after it delivered events (the
\* event streams are empty before the walker starts).
C8_Witness ==
    \E s \in Slots :
        pc[s] = "done" /\ block_ptr[IdOf(s)] = head /\ Uncommitted /= {}

\* The union of the event filters of the hosts registered for id is empty.
EmptyUnionFilter(id) ==
    /\ runtime_hosts_by_subgraph[id] /= 0
    /\ SeqUnion(hosts[runtime_hosts_by_subgraph[id]]) = {}

\* No event is in delivery and no entity was written or is about to be.
OnlyPointerUpdates ==
    /\ \A s \in Slots : pc[s] \notin {"send", "await"}
    /\ Uncommitted = {}
    /\ entities = {}

\* C9 as stated: for an empty union filter and a head ahead of the subgraph,
\* no event is delivered, no entity is written and the pointer reaches the
\* head.
C9_EmptyFilterReachesHead ==
    \A id \in Ids :
        (EmptyUnionFilter(id) /\ block_ptr[id].number < head.number) =>
            ([]OnlyPointerUpdates /\ <>(block_ptr[id] = head))

\* C9 amended: the same, for a subgraph that has at least one host.
C9_EmptyFilterWithHosts ==
    \A id \in Ids :
        (/\ EmptyUnionFilter(id)
         /\ hosts[runtime_hosts_by_subgraph[id]] /= <<>>
         /\ block_ptr[id].number < head.number) =>
            ([]OnlyPointerUpdates /\ <>(block_ptr[id] = head))

\* C9 witness: under an empty union filter the walker moves the pointer.
C9_Witness ==
    \E s \in Slots :
        /\ pc[s] \in {"fast_forward", "commit"}
        /\ EmptyUnionFilter(IdOf(s))
        /\ block_ptr[IdOf(s)].number < head.number

\* Walker s ends a delivery that failed: the send failed, or the host it
\* waited for subscribes to the event and confirmed without an entity
\* operation.
FailedDelivery(s) ==
    /\ pc'[s] \in {"send", "commit"}
    /\ \/ pc[s] = "send" /\ loc'[s] /= loc[s]
       \/ /\ pc[s] = "await"
          /\ Events(loc[s])[loc[s].ev].kind \in SinkFilter(loc[s], loc[s].sk)
          /\ streams' = streams

\* Walker s moves on to the next host for the same event, else to the first
\* host for the next event of the block, else to the pointer commit.
NextDelivery(s) ==
    LET l == loc[s]
        n == Len(hosts[l.event_sinks])
        m == Len(GetEventsInBlock(Head(l.descendant_blocks), l.event_filter))
    IN
    /\ loc'[s].descendant_blocks = l.descendant_blocks
    /\ block_ptr' = block_ptr
    /\ IF l.sk < n
       THEN pc'[s] = "send" /\ loc'[s].ev = l.ev /\ loc'[s].sk = l.sk + 1
       ELSE IF l.ev < m
       THEN pc'[s] = "send" /\ loc'[s].ev = l.ev + 1 /\ loc'[s].sk = 1
       ELSE pc'[s] = "commit"

\* C11: a delivery that fails for a host is skipped: the walker goes on with
\* the next host for the same event, then with every later event of the
\* block for every host, and then with the pointer commit of the block.
C11_FailedHostStallsNoOther ==
    [][\A s \in Slots : FailedDelivery(s) => NextDelivery(s)]_vars

\* C11 witness: a host that subscribes to an event failed on it and the
\* walker waits for a later host of the same block.
C11_Witness ==
    \E s \in Slots :
        /\ lost[s]
        /\ pc[s] = "await"
        /\ ~HostsDropped(loc[s].event_sinks)
        /\ loc[s].sk > 1

C12_HeadAbsentFatalToWalkerOnly ==
    /\ [][\A s \in Slots :
            (pc[s] = "loop" /\ head = NoPtr /\ pc'[s] /= "loop") =>
                UNCHANGED <<block_ptr, entities>>]_vars
    /\ [](subgraph_events = "running")
    /\ [][\A t \in Slots :
            (pc'[t] = "panicked" /\ pc[t] /= "panicked") => head = NoPtr]_vars

\* The provider adds id while id is registered.
Readded(id) ==
    /\ runtime_hosts_by_subgraph[id] /= 0
    /\ head_block_update_cancelers'[id] \notin {0, head_block_update_cancelers[id]}

\* C14: a re-add of a registered id replaces its hosts and its cancel sender
\* (which drops the earlier hosts and cancels the earlier task), starts a
\* fresh task, and leaves the subgraph pointer and the entities alone; a
\* cancelled task starts no walker again; every walker starts from the
\* pointer the store holds.
C14_ReaddResumes ==
    /\ [][\A id \in Ids : Readded(id) =>
            LET old == head_block_update_cancelers[id]
                new == head_block_update_cancelers'[id]
            IN  /\ runtime_hosts_by_subgraph'[id] = new
                /\ hosts' = Append(hosts, hosts'[new])
                /\ \A i \in Ids : runtime_hosts_by_subgraph'[i] /= old
                /\ pc[new] = "unspawned" /\ pc'[new] = "idle"
                /\ loc'[new].subgraph_id = id
                /\ ~cancel_head_block_update'[new]
                /\ UNCHANGED <<block_ptr, entities>>]_vars
    /\ [][\A s \in Slots :
            (cancel_head_block_update[s] /\ pc[s] \in {"idle", "token", "dead"}) =>
                pc'[s] \in {"idle", "token", "dead"}]_vars
    /\ [][\A s \in Slots :
            (pc[s] = "read_ptr" /\ pc'[s] \in {"decide", "done"}) =>
                loc'[s].subgraph_ptr = block_ptr[IdOf(s)]]_vars

\* C14 witness: after a re-add the new walker has read a pointer that the
\* earlier walker had moved off genesis.
C14_Witness ==
    \E s \in Slots :
        /\ s > 1
        /\ pc[s] = "decide"
        /\ runtime_hosts_by_subgraph[IdOf(s)] = s
        /\ loc[s].subgraph_ptr.number > 0

\* C15: while the subgraph pointer is on the main chain and an ancestor of
\* the head the walker read, the walker does not choose to revert; the number
\* of the subgraph pointer decreases only in a revert step, and then by one.
C15_MonotonicWithoutReorg ==
    /\ [][\A s \in Slots :
            (pc[s] = "decide" /\ pc'[s] = "to_parent") =>
                ~(/\ OnChain(loc[s].subgraph_ptr.hash, loc[s].head_ptr.hash)
                  /\ IsOnMainChain(loc[s].subgraph_ptr))]_vars
    /\ [][\A id \in Ids :
            block_ptr'[id].number < block_ptr[id].number =>
                /\ \E s \in Slots : /\ pc[s] = "to_parent"
                                    /\ pc'[s] = "loop"
                                    /\ IdOf(s) = id
                /\ block_ptr'[id].number = block_ptr[id].number - 1]_vars

\* Walker s takes the step decision (it is not cancelled at the check).
Decides(s) ==
    pc[s] = "decide" /\ pc'[s] /= "decide" /\ ~cancel_head_block_update[s]

\* The number of blocks the subgraph pointer read by s is behind the head
\* pointer read by s.
Depth(s) == loc[s].head_ptr.number - loc[s].subgraph_ptr.number

\* The block at number sub.number + 1 on the chain of the head read by s.
Candidate(s) == AncestorHash(loc[s].head_ptr.hash, Depth(s) - 1)

\* The outcome of the step decision of s is one the near-head step gives:
\* no block (the loop repeats), ToParent for a candidate whose parent is not
\* sub, or ToDescendants of the candidate alone.
NearHeadOutcome(s) ==
    \/ pc'[s] = "loop" /\ head /= loc[s].head_ptr
    \/ pc'[s] = "to_parent" /\ ParentHash(Candidate(s)) /= loc[s].subgraph_ptr.hash
    \/ /\ pc'[s] \in {"send", "commit"}
       /\ loc'[s].descendant_blocks = <<Candidate(s)>>
       /\ ParentHash(Candidate(s)) = loc[s].subgraph_ptr.hash

\* The outcome of the step decision of s is one the number-indexed calls
\* give: ToParent when sub is off the main chain, the fast-forward to
\* block_by_number(head.number - REORG_THRESHOLD) when no block of the range
\* matches, else ToDescendants of what find_first_blocks_with_events found.
SafeModeOutcome(s) ==
    LET l == loc[s]
        found == FindFirstBlocksWithEvents(l.subgraph_ptr.number + 1,
                     l.head_ptr.number - REORG_THRESHOLD, l.event_filter)
    IN  IF ~IsOnMainChain(l.subgraph_ptr) THEN pc'[s] = "to_parent"
        ELSE IF found = {<<>>}
        THEN /\ pc'[s] = "fast_forward"
             /\ loc'[s].new_ptr = BlockByNumber(l.head_ptr.number - REORG_THRESHOLD)
        ELSE /\ pc'[s] \in {"skip", "send", "commit"}
             /\ loc'[s].descendant_blocks \in found

\* C16: the step decision uses the number-indexed calls of the chain adapter
\* only when the subgraph is more than REORG_THRESHOLD blocks behind; at
\* exactly REORG_THRESHOLD and below it takes the near-head step, decided by
\* ancestor_block(head, head.number - sub.number - 1) alone.
C16_ModeBoundary ==
    [][\A s \in Slots : Decides(s) =>
          IF Depth(s) > REORG_THRESHOLD THEN SafeModeOutcome(s)
          ELSE NearHeadOutcome(s)]_vars

\* C16 witness: a walker exactly REORG_THRESHOLD blocks behind took the
\* near-head step and processes the one candidate block.
C16_Witness ==
    \E s \in Slots :
        /\ pc[s] \in {"send", "commit"}
        /\ Depth(s) = REORG_THRESHOLD
        /\ Len(loc[s].descendant_blocks) = 1

\* C17: a walker that reads a subgraph pointer whose number is at or above
\* the number of the head pointer it read leaves the loop and returns; it
\* writes nothing to the store and delivers nothing.
C17_CaughtUpNoAction ==
    /\ [][\A s \in Slots :
            (/\ pc[s] = "read_ptr"
             /\ pc'[s] /= "read_ptr"
             /\ block_ptr[IdOf(s)].number >= loc[s].head_ptr.number) =>
                pc'[s] = "done" /\ UNCHANGED <<block_ptr, entities, streams>>]_vars
    /\ [][\A s \in Slots :
            (pc[s] = "done" /\ pc'[s] /= "done") =>
                pc'[s] = "idle" /\ UNCHANGED <<block_ptr, entities, streams>>]_vars

\* C17 witness: a walker left the loop with the subgraph pointer above the
\* head pointer.
C17_Witness ==
    \E s \in Slots :
        pc[s] = "done" /\ loc[s].subgraph_ptr.number > loc[s].head_ptr.number

\* C18: in safe mode, with sub on the main chain and no matching block in
\* sub.number + 1 .. head.number - REORG_THRESHOLD, the walker chooses the
\* fast-forward to block_by_number(head.number - REORG_THRESHOLD); the
\* fast-forward is one pointer write from sub to that block, with no delivery
\* and no entity write, after which the loop repeats exactly REORG_THRESHOLD
\* blocks behind the head it read, where the step decision is near-head.
C18_FastForward ==
    /\ [][\A s \in Slots :
            (/\ Decides(s)
             /\ Depth(s) > REORG_THRESHOLD
             /\ IsOnMainChain(loc[s].subgraph_ptr)
             /\ MatchingPtrs(loc[s].subgraph_ptr.number + 1,
                             loc[s].head_ptr.number - REORG_THRESHOLD,
                             loc[s].event_filter) = <<>>) =>
                /\ pc'[s] = "fast_forward"
                /\ loc'[s].new_ptr =
                       BlockByNumber(loc[s].head_ptr.number - REORG_THRESHOLD)]_vars
    /\ [][\A s \in Slots :
            (pc[s] = "fast_forward" /\ pc'[s] /= "fast_forward") =>
                /\ UNCHANGED <<entities, streams>>
                /\ IF block_ptr[IdOf(s)] = loc[s].subgraph_ptr
                   THEN /\ block_ptr'[IdOf(s)] = loc[s].new_ptr
                        /\ loc[s].head_ptr.number - block_ptr'[IdOf(s)].number
                              = REORG_THRESHOLD
                        /\ pc'[s] = "loop"
                   ELSE UNCHANGED block_ptr /\ pc'[s] = "idle"]_vars
    /\ [][\A s \in Slots :
            (Decides(s) /\ Depth(s) = REORG_THRESHOLD) =>
                pc'[s] \notin {"fast_forward", "skip"}]_vars

\* C18 witness: hosts with a non-empty filter, and the walker has chosen the
\* fast-forward from the pointer the store holds.
C18_Witness ==
    \E s \in Slots :
        /\ pc[s] = "fast_forward"
        /\ loc[s].event_filter /= {}
        /\ block_ptr[IdOf(s)] = loc[s].subgraph_ptr
        /\ loc[s].new_ptr.number = loc[s].head_ptr.number - REORG_THRESHOLD

\* The block walker s is processing in Step::ToDescendants.
CurrentBlock(s) == Head(loc[s].descendant_blocks)

\* Walker s has a delivery of the current block still to make after the one
\* at (ev, sk).
MoreDeliveries(s) ==
    \/ loc[s].sk < Len(hosts[loc[s].event_sinks])
    \/ loc[s].ev < Len(GetEventsInBlock(CurrentBlock(s), loc[s].event_filter))

\* C19: in Step::ToDescendants the walker writes the pointer over the gap to
\* the parent of block b exactly when its pointer is not that parent, and
\* delivers nothing in that write; it delivers b's events with its pointer at
\* b's parent; it writes the pointer from b's parent to b once, after the
\* last send for b has completed or failed, and then leaves b.
C19_ToDescendants ==
    /\ [](\A s \in Slots :
            /\ pc[s] = "skip" => loc[s].subgraph_ptr /= ToParentPtr(CurrentBlock(s))
            /\ pc[s] \in {"send", "await", "commit"} =>
                  loc[s].subgraph_ptr = ToParentPtr(CurrentBlock(s)))
    /\ [][\A s \in Slots :
            (pc[s] = "skip" /\ pc'[s] \notin {"skip", "idle", "failed"}) =>
                /\ block_ptr[IdOf(s)] = loc[s].subgraph_ptr
                /\ block_ptr'[IdOf(s)] = ToParentPtr(CurrentBlock(s))
                /\ loc'[s].descendant_blocks = loc[s].descendant_blocks
                /\ pc'[s] \in {"send", "commit"}
                /\ UNCHANGED <<entities, streams>>]_vars
    /\ [][\A s \in Slots :
            (pc'[s] = "commit" /\ loc'[s] /= loc[s]) =>
                \/ GetEventsInBlock(Head(loc'[s].descendant_blocks),
                                    loc'[s].event_filter) = <<>>
                \/ pc[s] \in {"send", "await"} /\ ~MoreDeliveries(s)]_vars
    /\ [][\A s \in Slots :
            (/\ pc[s] = "commit" /\ loc'[s] /= loc[s]
             /\ pc'[s] \notin {"idle", "failed"}) =>
                /\ block_ptr[IdOf(s)] = ToParentPtr(CurrentBlock(s))
                /\ block_ptr'[IdOf(s)] = PtrOf(CurrentBlock(s))
                /\ \/ pc'[s] = "loop"
                   \/ loc'[s].descendant_blocks = Tail(loc[s].descendant_blocks)]_vars
    /\ [][\A s \in Slots, b \in Hashes :
            (/\ pc[s] \in {"skip", "send", "await", "commit"}
             /\ CurrentBlock(s) = b
             /\ <<pc'[s], loc'[s]>> /= <<pc[s], loc[s]>>
             /\ block_ptr'[IdOf(s)] = PtrOf(b)
             /\ block_ptr[IdOf(s)] /= PtrOf(b)) => pc[s] = "commit"]_vars

\* C19 witness: block B#2 was found by number under the head B#4, the
\* pointer is at its parent B#1 and the walker delivers the block's events.
C19_Witness ==
    \E s \in Slots :
        /\ pc[s] \in {"send", "await"}
        /\ CurrentBlock(s) = <<"B", 2>>
        /\ loc[s].head_ptr.number = 4
        /\ block_ptr[IdOf(s)] = ToParentPtr(CurrentBlock(s))

\* The step decision of s gave a step: it was not cancelled, no call failed
\* and ancestor_block returned a block.
ChoosesStep(s) == Decides(s) /\ pc'[s] \notin {"loop", "failed"}

\* Step::ToParent of s ran to its end.
Reverts(s) == pc[s] = "to_parent" /\ pc'[s] = "loop"

\* C20: the walker chooses ToParent exactly when, beyond REORG_THRESHOLD,
\* is_on_main_chain(sub) is false or, within it, the parent of the candidate
\* that ancestor_block returned is not sub; within REORG_THRESHOLD and with
\* sub the candidate's parent it advances to the candidate alone, one block
\* up. ToParent reverts the block at sub.hash, which leaves the pointer at
\* that block's parent, and is the only store write of its iteration.
C20_StepDirection ==
    /\ [][\A s \in Slots : ChoosesStep(s) =>
            (pc'[s] = "to_parent" <=>
                IF Depth(s) > REORG_THRESHOLD
                THEN ~IsOnMainChain(loc[s].subgraph_ptr)
                ELSE ParentHash(Candidate(s)) /= loc[s].subgraph_ptr.hash)]_vars
    /\ [][\A s \in Slots :
            (/\ ChoosesStep(s)
             /\ Depth(s) <= REORG_THRESHOLD
             /\ ParentHash(Candidate(s)) = loc[s].subgraph_ptr.hash) =>
                /\ pc'[s] \in {"send", "commit"}
                /\ loc'[s].descendant_blocks = <<Candidate(s)>>
                /\ PtrOf(Candidate(s)).number = loc[s].subgraph_ptr.number + 1]_vars
    /\ [][\A s \in Slots :
            (ChoosesStep(s) /\ pc'[s] = "to_parent") =>
                /\ loc'[s] = loc[s]
                /\ UNCHANGED <<block_ptr, entities>>]_vars
    /\ [][\A s \in Slots :
            (pc[s] = "to_parent" /\ pc'[s] \notin {"to_parent", "failed"}) =>
                /\ Reverts(s)
                /\ entities' = RevertedEntities(IdOf(s), loc[s].subgraph_ptr.hash)
                /\ block_ptr'[IdOf(s)] = ToParentPtr(loc[s].subgraph_ptr.hash)
                /\ block_ptr'[IdOf(s)].number = loc[s].subgraph_ptr.number - 1
                /\ last_reverted'[IdOf(s)] = loc[s].subgraph_ptr.hash]_vars

\* C20 witness: the walker reverted the block B#2 its pointer was at, the
\* pointer is at the parent B#1 and the loop repeats.
C20_Witness ==
    \E s \in Slots :
        /\ pc[s] = "loop"
        /\ last_reverted[IdOf(s)] = <<"B", 2>>
        /\ block_ptr[IdOf(s)] = ToParentPtr(<<"B", 2>>)

\* The registry holds the cancel sender of the task of slot s.
HoldsCancel(s) == \E id \in Ids : head_block_update_cancelers[id] = s

\* C21: the cancel flag of a task only ever goes from false to true, and
\* only once the cancel sender of that task was dropped; with the flag set
\* the walker leaves at the loop head instead of starting an iteration, and
\* the task ends at its next head block update without calling the walker.
C21_CancelFlag ==
    /\ [](\A s \in Slots : cancel_head_block_update[s] =>
            Spawned(s) /\ ~HoldsCancel(s))
    /\ [][\A s \in Slots :
            /\ cancel_head_block_update[s] => cancel_head_block_update'[s]
            /\ (cancel_head_block_update[s] /\ pc[s] = "loop" /\ pc'[s] /= "loop")
                  => pc'[s] = "idle" /\ UNCHANGED <<block_ptr, entities, streams>>
            /\ (cancel_head_block_update[s] /\ pc[s] = "token" /\ pc'[s] /= "token")
                  => pc'[s] = "dead"
            /\ pc[s] = "dead" => pc'[s] = "dead"]_vars

\* C21 witness: the flag of a task was set while its walker was in flight,
\* the walker left at the loop head and the task ended at the next update.
C21_Witness ==
    \E s \in Slots :
        /\ pc[s] = "dead"
        /\ cancel_head_block_update[s]
        /\ \E id \in Ids : block_ptr[id].number > 0

\* The head block update task of slot s is alive and belongs to id.
TaskOf(s, id) ==
    pc[s] \notin {"unspawned", "dead", "panicked"} /\ IdOf(s) = id

\* C22: once SubgraphRemoved(id) was handled and until id is added again,
\* a head block update that reaches a task of id does not start the walker,
\* whether or not the cancel flag is set yet; no host of id takes an event
\* and no host emits an entity operation.
C22_NoWalkerAfterRemoved ==
    [][\A id \in Ids : Removed(id) =>
          /\ \A s \in Slots : TaskOf(s, id) =>
                /\ pc[s] = "token" => pc'[s] \in {"token", "idle", "dead"}
                /\ pc'[s] = "await" => pc[s] = "await"
          /\ \A g \in 1..Len(hosts) : \A k \in 1..Len(hosts[g]) :
                Len(streams'[g][k]) <= Len(streams[g][k])]_vars

\* C22 witness: the subgraph was removed behind its head, the cancel flag of
\* its task is not set yet and a head block update has reached the task.
C22_Witness ==
    \E s \in Slots :
        /\ pc[s] = "token"
        /\ Removed(IdOf(s))
        /\ ~cancel_head_block_update[s]
        /\ block_ptr[IdOf(s)].number < head.number

\* Positions of the walker right before a set_block_ptr_with_no_changes.
SetBlockPtrPcs == {"fast_forward", "skip", "commit"}

\* Walker s made the store call it was about to make and the call did not
\* return Err.
StoreCallReturned(s) ==
    <<pc'[s], loc'[s]>> /= <<pc[s], loc[s]>> /\ pc'[s] /= "failed"

\* C23: with one walker for the subgraph, the old pointer of every
\* set_block_ptr_with_no_changes the walker is about to issue is the pointer
\* the store holds, the block of every revert_block is the block the stored
\* pointer designates, and each such call changes the stored pointer: the
\* compare on the old pointer never fails.
C23_CompareAndSet ==
    /\ [](\A s \in Slots :
            /\ pc[s] \in SetBlockPtrPcs =>
                  block_ptr[IdOf(s)] = loc[s].subgraph_ptr
            /\ pc[s] = "to_parent" =>
                  block_ptr[IdOf(s)].hash = loc[s].subgraph_ptr.hash)
    /\ [][\A s \in Slots :
            (pc[s] \in SetBlockPtrPcs \cup {"to_parent"} /\ StoreCallReturned(s))
                => block_ptr'[IdOf(s)] /= block_ptr[IdOf(s)]]_vars

\* C23 witness: after a write over the gap to B#1 the walker is about to
\* advance the pointer from B#1 to B#2, and the store holds B#1.
C23_Witness ==
    \E s \in Slots :
        /\ pc[s] = "commit"
        /\ CurrentBlock(s) = <<"B", 2>>
        /\ loc[s].head_ptr.number = 4
        /\ block_ptr[IdOf(s)] = loc[s].subgraph_ptr

\* Walker s wrote the subgraph pointer in this step.
WritesPtr(s) ==
    /\ pc[s] \in SetBlockPtrPcs \cup {"to_parent"}
    /\ <<pc'[s], loc'[s]>> /= <<pc[s], loc[s]>>
    /\ block_ptr'[IdOf(s)] /= block_ptr[IdOf(s)]

\* C24: a pointer the walker writes is at or below the head it read in that
\* iteration; beyond REORG_THRESHOLD a pointer written by the fast-forward,
\* over a gap or for a processed block is at or below head.number -
\* REORG_THRESHOLD, the blocks to process are numbered within from..to, and
\* from <= to.
C24_NotPastHead ==
    /\ [][\A s \in Slots : WritesPtr(s) =>
            /\ block_ptr'[IdOf(s)].number <= loc[s].head_ptr.number
            /\ (Depth(s) > REORG_THRESHOLD /\ pc[s] /= "to_parent") =>
                  block_ptr'[IdOf(s)].number
                      <= loc[s].head_ptr.number - REORG_THRESHOLD]_vars
    /\ [][\A s \in Slots : (Decides(s) /\ Depth(s) > REORG_THRESHOLD) =>
            /\ loc[s].subgraph_ptr.number + 1
                  <= loc[s].head_ptr.number - REORG_THRESHOLD
            /\ pc'[s] = "fast_forward" =>
                  loc'[s].new_ptr.number
                      = loc[s].head_ptr.number - REORG_THRESHOLD
            /\ \A i \in DOMAIN loc'[s].descendant_blocks :
                  /\ loc'[s].descendant_blocks[i][2]
                        >= loc[s].subgraph_ptr.number + 1
                  /\ loc'[s].descendant_blocks[i][2]
                        <= loc[s].head_ptr.number - REORG_THRESHOLD]_vars

\* C24 witness: beyond REORG_THRESHOLD the walker processed A#1 and is about
\* to advance the pointer to A#2, the last block of the range under the head
\* at number 4.
C24_Witness ==
    \E s \in Slots :
        /\ pc[s] = "commit"
        /\ Depth(s) > REORG_THRESHOLD
        /\ loc[s].descendant_blocks = << <<"A", 2>> >>
        /\ loc[s].head_ptr.number = 4
        /\ block_ptr[IdOf(s)] = PtrOf(<<"A", 1>>)

\* The ids that have an entry in the mapping of runtime hosts and in the
\* mapping of cancel senders.
HostIds == {id \in Ids : runtime_hosts_by_subgraph[id] /= 0}
CancelerIds == {id \in Ids : head_block_update_cancelers[id] /= 0}

\* C25: after every provider event that was handled the two mappings of the
\* registry have the same ids; a SubgraphRemoved of an id that was added
\* and not removed since takes the id out of both and passes the assert; the
\* task that handles the provider's events panics only in a SubgraphRemoved
\* of an id that is not registered.
C25_RegistryConsistent ==
    /\ [](HostIds = CancelerIds)
    /\ [][\A id \in Ids : (id \in CancelerIds /\ id \notin CancelerIds') =>
            /\ subgraph_events' = "running"
            /\ id \notin HostIds']_vars
    /\ [][(subgraph_events = "running" /\ subgraph_events' = "panicked") =>
            /\ \E id \in Ids : id \notin CancelerIds
            /\ UNCHANGED <<runtime_hosts_by_subgraph,
                           head_block_update_cancelers>>]_vars

\* C25 witness: a subgraph was added and removed, and a second
\* SubgraphRemoved of its id failed the assert.
C25_Witness ==
    /\ subgraph_events = "panicked"
    /\ hosts /= <<>>
    /\ HostIds = {}
    /\ CancelerIds = {}

\* No host list is registered under the id of the task of slot s, or the
\* registered list is empty.
EmptyOrMissing(s) ==
    \/ runtime_hosts_by_subgraph[IdOf(s)] = 0
    \/ hosts[runtime_hosts_by_subgraph[IdOf(s)]] = <<>>

\* C26: a head block update handled while the host list of the subgraph id
\* is empty or missing does not call the walker and changes nothing in the
\* store or on the hosts; a subgraph added with zero data sources has no
\* walker in flight and its pointer stays where SubgraphAdded put it.
C26_NoHostsNoWalker ==
    /\ [][\A s \in Slots :
            (pc[s] = "token" /\ EmptyOrMissing(s) /\ pc'[s] /= "token") =>
                /\ pc'[s] \in {"idle", "dead"}
                /\ UNCHANGED <<block_ptr, entities, streams, head>>]_vars
    /\ [](\A s \in Slots : (Spawned(s) /\ hosts[s] = <<>> /\ Len(hosts) = 1) =>
            /\ pc[s] \notin WalkerPcs
            /\ block_ptr["X"] = PtrOf(Genesis))

\* C26 witness: a subgraph added with zero data sources is four blocks behind
\* the head and a head block update has reached its task.
C26_Witness ==
    \E s \in Slots :
        /\ pc[s] = "token"
        /\ runtime_hosts_by_subgraph[IdOf(s)] = s
        /\ hosts[s] = <<>>
        /\ head.number = 4
        /\ block_ptr[IdOf(s)] = PtrOf(Genesis)

====
